---- MODULE Spec2Model ----
(***************************************************************************)
(* Authentication and token lifecycle of negare-api: refresh-token         *)
(* rotation (RefreshService, TokenService, AuthController) and the OTP     *)
(* state machine (OtpService, OtpRateLimitService) over a shared Redis     *)
(* store.  Every `await` on the store is one step of a request, so the     *)
(* requests of different clients interleave at each store round trip.      *)
(***************************************************************************)
EXTENDS Integers, Sequences, FiniteSets, TLC

\* ------------------------------------------------------------------ bounds
MaxJti == 3        \* refresh tokens minted in one behaviour
MaxSid == 1        \* sessions created in one behaviour

\* --------------------------------------------------------------- constants
\* Time is counted in units of the refresh lifetime (auth.refreshExpires): a key
\* written with EX refreshTtlSeconds, and a token signed with that expiresIn, lasts
\* until the next Tick.
RefreshTtl == 1

Procs == {"p1", "p2"}
Users == {"u1"}
Jtis == 1..MaxJti
Null == 0
NoTtl == -1        \* TTL of a key without expiry
NoTok == 0         \* no token presented ('' / undefined)
Forged == -1       \* a token that jsonwebtoken.verify rejects
SessionIds == {100 + i : i \in 1..MaxSid}

NoHeaders == [origin |-> "absent", referer |-> "absent", ctype |-> "absent", len |-> 0]
NoReq == [cookie |-> NoTok, body |-> NoTok, headers |-> NoHeaders]
NoHits == [count |-> 0, ttl |-> 0]

NoEntry == [text |-> "json", userId |-> "none", sessionId |-> Null, ttl |-> 0]
NoResp == [status |-> 0, code |-> "none", message |-> "none", cookie |-> NoTok]
NoToken == [sub |-> "none", sid |-> Null, exp |-> 0]
NoStart == [entry |-> FALSE, rotated |-> FALSE, revoked |-> FALSE]
NoPrev == [op |-> "none", arg |-> NoTok, allow |-> <<>>, rbl |-> <<>>, links |-> {}]

VARIABLES
  allow,      \* auth:refresh:allow:<jti>  -> RefreshAllowRecord with its TTL
  rbl,        \* auth:rbl:<jti>            -> remaining TTL (0: absent)
  links,      \* session:jtis:<userId>:<sessionId> as triples <<userId, sid, jti>>
  sessions,   \* sessions created by SessionService.create: <<userId, sid>>
  lastUsedAt, \* per session: how often its lastUsedAt was written (create, touch)
  tokens,     \* signed refresh tokens by jti: claims sub, sid and remaining exp
  known,      \* jtis of the refresh tokens that were returned to a client
  nextJti,    \* next value of randomUUID()
  nextSid,    \* next session id of SessionService.create
  pc, op, arg,        \* per request: position, operation, presented token
  stored,             \* refresh(): the record read by atomicGetDel
  sess,               \* buildPair(): its sessionId argument
  newJti,             \* buildPair(): the jti it generated
  res,                \* per request: the result returned or thrown
  resp,               \* per request: the HTTP response of the controller
  cookieCleared,      \* logout(): clearRefreshCookie was called
  serial,     \* TRUE: requests run one after the other
  succ,       \* history: successful refresh() calls per presented jti
  revoked,    \* history: jtis for which a revoke() returned
  start,      \* history: what held when the request started
  prev        \* history: the last completed request and the store it left

VARIABLES
  rec,        \* otp:<hash40>      the OTP record (a Redis hash) with its TTL
  cd,         \* otp:<hash40>:cd   cooldown marker: remaining TTL (0: absent)
  blk,        \* otp:<hash40>:blk  block record: remaining TTL (0: absent)
  rlReq,      \* otp:rl:req:id:... request bucket: count and TTL
  rlVer,      \* otp:rl:ver:id:... verify bucket: count and TTL
  tickets,    \* otp:ticket:<jti>  as written: jti, stored hash, EX
  nextCode,   \* next value of random6Digits()
  nextTicket, \* next value of crypto.randomUUID() in verifyOtp
  sent,       \* codes handed to SmsService/MailService.sendOtp
  opc, oop, ocode,    \* per request: position, operation, supplied code
  lhash,              \* local: codeHash read by hgetall (verify), code generated (issue)
  ores,               \* per request: the result returned or thrown
  oserial,    \* TRUE: requests run one after the other
  fails,      \* history: failed verifyOtp calls made against the current code
  used,       \* history: codes a verifyOtp call has accepted
  admitted,   \* history: consume calls let through in the current window, per bucket
  cases,      \* history: the 400 failures of verifyOtp as thrown: <<case, exception>>
  ostart      \* history: what held when the request started

VARIABLES
  env,        \* process.env: COOKIE_SAMESITE, COOKIE_SECURE, NODE_ENV
  cookieCfg,  \* AuthConfig.cookie as authConfig() resolved it
  jar,        \* options of the refresh cookie last set by setRefreshCookie
  onetime,    \* store: remaining TTL of the key keyOneTime(jti), 0 when absent
  tpc,        \* position of each consumeOneTime call
  targ,       \* its jti
  tres,       \* what it returned
  allowed,    \* history: allowOneTime calls per jti
  granted,    \* history: consumeOneTime calls per jti that returned true
  req,        \* POST /auth/refresh: the request each handler is working on
  rrl,        \* store: hit counter of RefreshRateLimitService for the client's key
  rejected,   \* history: token of the last request refused by the header checks
  faulted     \* history: jtis whose blacklist or unlink call failed

cvars == <<env, cookieCfg, jar>>
tvars == <<onetime, tpc, targ, tres, allowed, granted>>
hvars == <<req, rrl, rejected, faulted>>
xvars == <<cvars, tvars, hvars>>

ovars == <<rec, cd, blk, rlReq, rlVer, tickets, nextCode, nextTicket, sent, opc, oop,
           ocode, lhash, ores, oserial, fails, used,
           cases, admitted, ostart>>

rvars == <<allow, rbl, links, sessions, lastUsedAt, tokens, known, nextJti, nextSid,
           pc, op, arg, stored, sess, newJti, res, resp, cookieCleared, serial, succ,
           revoked, start, prev>>

store == <<allow, rbl, links>>
locals == <<stored, sess, newJti>>
hist == <<succ, revoked, start, prev>>

\* ------------------------------------------------------------ TokenService

IsPresent(entry) == entry.ttl > 0 \/ entry.ttl = NoTtl

isRefreshBlacklisted(jti) == rbl[jti] > 0

\* jsonwebtoken.verify with the refresh secret: signature, exp, then the claims
safeVerify(t, ignoreExpiration) ==
  /\ t \in Jtis
  /\ tokens[t].sub # "none"
  /\ (ignoreExpiration \/ tokens[t].exp > 0)

verifyRefresh(t, ignoreExpiration, skipBlacklist) ==
  /\ safeVerify(t, ignoreExpiration)
  /\ tokens[t].sid # Null
  /\ (skipBlacklist \/ ~isRefreshBlacklisted(t))

\* RefreshService.verifyRefreshToken: "ok" or the message of the exception
verifyRefreshToken(t, ignoreExpiration, skipBlacklist) ==
  IF t = NoTok THEN "Refresh token must be provided."
  ELSE IF verifyRefresh(t, ignoreExpiration, skipBlacklist) THEN "ok"
  ELSE "Refresh token verification failed."

blacklistRefreshJti_Noop(jti, ttlSec) == UNCHANGED rbl
\* SET auth:rbl:<jti> '1' EX ttl
blacklistRefreshJti(jti, ttlSec) ==
  rbl' = [rbl EXCEPT ![jti] = IF ttlSec > 0 THEN ttlSec ELSE RefreshTtl]

\* ---------------------------------------------------------- SessionService

linkRefreshJti(userId, sessionId, jti) ==
  links' = links \cup {<<userId, sessionId, jti>>}

unlinkRefreshJti(userId, sessionId, jti) ==
  links' = links \ {<<userId, sessionId, jti>>}

\* ---------------------------------------------------------- RefreshService

Unauthorized ==
  { "Refresh token must be provided.", "Refresh token verification failed.",
    "Refresh token is no longer valid. Please sign in again.",
    "Refresh state mismatch.", "Refresh token session mismatch." }

Idle(p) == pc[p] = "idle"
AllIdle == \A q \in Procs : Idle(q)
InFlightMinting == Cardinality({q \in Procs : pc[q] # "idle" /\ pc[q] # "done"
                                  /\ op[q] \in {"refresh", "login", "issue"}})

\* a request may start: under serial scheduling only when no other is running
MayStart(p) == Idle(p) /\ (serial => \A q \in Procs : pc[q] \in {"idle"})

StartFlags(t) ==
  IF t \in Jtis
  THEN [entry |-> IsPresent(allow[t]), rotated |-> succ[t] > 0, revoked |-> t \in revoked]
  ELSE NoStart

Begin(p, o, t, first) ==
  /\ MayStart(p)
  /\ pc' = [pc EXCEPT ![p] = first]
  /\ op' = [op EXCEPT ![p] = o]
  /\ arg' = [arg EXCEPT ![p] = t]
  /\ start' = [start EXCEPT ![p] = StartFlags(t)]

refreshResponse_Leaky(inner, jti) ==
  IF inner = "ok"
  THEN [status |-> 200, code |-> "ok", message |-> "ok", cookie |-> jti]
  ELSE [status |-> 401, code |-> "InvalidRefresh", message |-> inner, cookie |-> NoTok]
\* AuthController.refresh: setRefreshCookie and 200, or 401 InvalidRefresh for any error
refreshResponse(inner, jti) ==
  IF inner = "ok"
  THEN [status |-> 200, code |-> "ok", message |-> "ok", cookie |-> jti]
  ELSE [status |-> 401, code |-> "InvalidRefresh",
        message |-> "Invalid or expired refresh token.", cookie |-> NoTok]

loginResponse_Leaky(inner, jti) ==
  IF inner = "ok"
  THEN [status |-> 200, code |-> "ok", message |-> "ok", cookie |-> jti]
  ELSE [status |-> 401, code |-> "InvalidCredentials", message |-> inner,
        cookie |-> NoTok]
\* AuthController.login: setRefreshCookie and 200, or 401 InvalidCredentials for any error
loginResponse(inner, jti) ==
  IF inner = "ok"
  THEN [status |-> 200, code |-> "ok", message |-> "ok", cookie |-> jti]
  ELSE [status |-> 401, code |-> "InvalidCredentials",
        message |-> "Invalid credentials.", cookie |-> NoTok]

\* what the controller answers; the service calls issue and revoke have no response.
\* refresh without a token is answered by the controller before the rotation starts
Response(o, inner, jti) ==
  CASE o = "refresh" ->
         IF inner \in {"Refresh token must be provided.", "No refresh cookie"}
         THEN [status |-> 401, code |-> "MissingRefresh", message |-> "No refresh cookie",
               cookie |-> NoTok]
         ELSE IF inner = "Origin is not allowed for refresh."
         THEN [status |-> 403, code |-> "OriginNotAllowed", message |-> inner,
               cookie |-> NoTok]
         ELSE IF inner = "Content-Type must be application/json."
         THEN [status |-> 400, code |-> "Bad Request", message |-> inner,
               cookie |-> NoTok]
         ELSE IF inner = "Too many refresh attempts. Please try again later."
         THEN [status |-> 429, code |-> "TooManyRefreshRequests", message |-> inner,
               cookie |-> NoTok]
         ELSE refreshResponse(inner, jti)
    [] o = "login" -> loginResponse(inner, jti)
    [] o = "logout" -> [status |-> 200, code |-> "ok", message |-> "success",
                        cookie |-> NoTok]
    [] OTHER -> NoResp

FinishAs(p, o, r) ==
  /\ pc' = [pc EXCEPT ![p] = "done"]
  /\ res' = [res EXCEPT ![p] = r]
  /\ resp' = [resp EXCEPT ![p] = Response(o, r, newJti[p])]

Finish(p, r) == FinishAs(p, op[p], r)

Goto(p, label) ==
  /\ pc' = [pc EXCEPT ![p] = label]
  /\ UNCHANGED <<res, resp>>

\* tokens a client can present: the ones it was given; under serial scheduling
\* also no token and a forged one
Presentable == IF serial THEN known \cup {NoTok, Forged} ELSE known

NewJti_Reuse(p) == IF op[p] = "refresh" THEN arg[p] ELSE nextJti
\* buildPair: const jti = randomUUID()
NewJti(p) == nextJti

\* JSON.parse of the stored string: it throws on 'not-json'; '1' parses to the
\* number 1, which has no userId
jsonParse(raw) ==
  IF raw.text = "not-json" THEN [threw |-> TRUE, rec |-> NoEntry]
  ELSE IF raw.text = "1" THEN [threw |-> FALSE, rec |-> NoEntry]
  ELSE [threw |-> FALSE, rec |-> raw]

parseAllowRecord_Inverted(raw, expectedUserId) ==
  LET parsed == jsonParse(raw) IN
  IF parsed.threw
  THEN IF raw.text = "1"
       THEN [text |-> "json", userId |-> expectedUserId, sessionId |-> Null,
             ttl |-> raw.ttl]
       ELSE NoEntry
  ELSE IF parsed.rec.userId = "none" THEN NoEntry
  ELSE IF parsed.rec.userId = expectedUserId THEN NoEntry
  ELSE parsed.rec
\* parseAllowRecord: the record, or NoEntry for null; the catch branch accepts the
\* legacy value '1'
parseAllowRecord(raw, expectedUserId) ==
  LET parsed == jsonParse(raw) IN
  IF parsed.threw
  THEN IF raw.text = "1"
       THEN [text |-> "json", userId |-> expectedUserId, sessionId |-> Null,
             ttl |-> raw.ttl]
       ELSE NoEntry
  ELSE IF parsed.rec.userId = "none" THEN NoEntry
  ELSE IF parsed.rec.userId # expectedUserId THEN NoEntry
  ELSE parsed.rec

sessionMismatch_Never(record, payload) == FALSE
\* refresh: record.sessionId && record.sessionId !== payload.sid
sessionMismatch(record, payload) ==
  record.sessionId # Null /\ record.sessionId # payload.sid

atomicGetDel_GetOnly(p) ==
  /\ stored' = [stored EXCEPT ![p] = allow[arg[p]]]
  /\ UNCHANGED allow
\* atomicGetDel: GETDEL (or MULTI get+del) reads and deletes in one store command
atomicGetDel(p) ==
  /\ stored' = [stored EXCEPT ![p] = allow[arg[p]]]
  /\ allow' = [allow EXCEPT ![arg[p]] = NoEntry]

allowRecord_NoSession(userId, sessionId) ==
  [text |-> "json", userId |-> userId, sessionId |-> Null, ttl |-> RefreshTtl]
\* buildPair: JSON.stringify({userId: user.id, sessionId: sessionId ?? null}), EX ttl
allowRecord(userId, sessionId) ==
  [text |-> "json", userId |-> userId, sessionId |-> sessionId, ttl |-> RefreshTtl]

\* buildPair up to its first await: generate the jti, sign, SET the allow-list entry
buildPairSet(p, userId, sessionId) ==
  LET jti == NewJti(p) IN
  /\ newJti' = [newJti EXCEPT ![p] = jti]
  /\ sess' = [sess EXCEPT ![p] = sessionId]
  /\ nextJti' = nextJti + 1
  /\ tokens' = [tokens EXCEPT ![jti] =
        [sub |-> userId, sid |-> IF sessionId # Null THEN sessionId ELSE jti,
         exp |-> RefreshTtl]]
  /\ allow' = [allow EXCEPT ![jti] = allowRecord(userId, sessionId)]

\* --- issueTokensForUserId(userId) without a session -----------------------
IssueStart(p, u) ==
  /\ nextJti + InFlightMinting <= MaxJti
  /\ Begin(p, "issue", NoTok, "i_set")
  /\ stored' = [stored EXCEPT ![p] = [NoEntry EXCEPT !.userId = u]]
  /\ UNCHANGED <<store, sessions, lastUsedAt, tokens, known, nextJti, nextSid, sess,
                 newJti, res, resp, cookieCleared, serial, ovars, xvars, succ, revoked,
                 prev>>

\* --- AuthController.login: password.login, sessions.create, issueTokensForUserId
LoginStart(p, u) ==
  /\ nextJti + InFlightMinting <= MaxJti
  /\ nextSid <= MaxSid
  /\ Begin(p, "login", NoTok, "l_create")
  /\ stored' = [stored EXCEPT ![p] = [NoEntry EXCEPT !.userId = u]]
  /\ UNCHANGED <<store, sessions, lastUsedAt, tokens, known, nextJti, nextSid, sess,
                 newJti, res, resp, cookieCleared, serial, ovars, xvars, succ, revoked,
                 prev>>

SessionCreate(p) ==
  /\ pc[p] = "l_create"
  /\ sessions' = sessions \cup {<<stored[p].userId, 100 + nextSid>>}
  /\ lastUsedAt' = [lastUsedAt EXCEPT ![100 + nextSid] = 1]
  /\ sess' = [sess EXCEPT ![p] = 100 + nextSid]
  /\ nextSid' = nextSid + 1
  /\ Goto(p, "i_set")
  /\ UNCHANGED <<store, tokens, known, nextJti, op, arg, stored, newJti, cookieCleared,
                 serial, ovars, xvars, hist>>

IssueSet(p) ==
  /\ pc[p] = "i_set"
  /\ buildPairSet(p, stored[p].userId, sess[p])
  /\ IF sess[p] # Null THEN Goto(p, "i_link") ELSE Finish(p, "ok")
  /\ UNCHANGED <<rbl, links, sessions, lastUsedAt, known, nextSid, op, arg, stored,
                 cookieCleared, serial, ovars, xvars, hist>>

IssueLink(p) ==
  /\ pc[p] = "i_link"
  /\ linkRefreshJti(stored[p].userId, sess[p], newJti[p])
  /\ Finish(p, "ok")
  /\ UNCHANGED <<allow, rbl, sessions, lastUsedAt, tokens, known, nextJti, nextSid, op,
                 arg, locals, cookieCleared, serial, ovars, xvars, hist>>

\* --- refresh(refreshToken) -----------------------------------------------
RefreshStart(p, t) ==
  /\ t \in Presentable
  /\ nextJti + InFlightMinting <= MaxJti
  /\ Begin(p, "refresh", t, "r_verify")
  /\ UNCHANGED <<store, sessions, lastUsedAt, tokens, known, nextJti, nextSid, locals, res,
                 resp, cookieCleared, serial, ovars, xvars, succ, revoked, prev>>

RefreshVerify(p) ==
  /\ pc[p] = "r_verify"
  /\ LET v == verifyRefreshToken(arg[p], FALSE, FALSE) IN
       IF v = "ok" THEN Goto(p, "r_getdel") ELSE Finish(p, v)
  /\ UNCHANGED <<store, sessions, lastUsedAt, tokens, known, nextJti, nextSid, op, arg,
                 locals, cookieCleared, serial, ovars, xvars, hist>>

RefreshGetDel(p) ==
  /\ pc[p] = "r_getdel"
  /\ atomicGetDel(p)
  /\ LET payload == tokens[arg[p]]
         got == allow[arg[p]]
         record == parseAllowRecord(got, payload.sub)
     IN IF ~IsPresent(got)
        THEN Finish(p, "Refresh token is no longer valid. Please sign in again.")
        ELSE IF record = NoEntry THEN Finish(p, "Refresh state mismatch.")
        ELSE IF sessionMismatch(record, payload)
        THEN Finish(p, "Refresh token session mismatch.")
        ELSE Goto(p, "r_blacklist")
  /\ UNCHANGED <<rbl, links, sessions, lastUsedAt, tokens, known, nextJti, nextSid, op,
                 arg, sess, newJti, cookieCleared, serial, ovars, xvars, hist>>

RefreshBlacklist(p) ==
  /\ pc[p] = "r_blacklist"
  /\ blacklistRefreshJti(arg[p], RefreshTtl)
  /\ Goto(p, IF stored[p].sessionId # Null THEN "r_unlink" ELSE "r_set")
  /\ UNCHANGED <<allow, links, sessions, lastUsedAt, tokens, known, nextJti, nextSid, op,
                 arg, locals, cookieCleared, serial, ovars, xvars, hist>>

RefreshUnlink(p) ==
  /\ pc[p] = "r_unlink"
  /\ unlinkRefreshJti(tokens[arg[p]].sub, stored[p].sessionId, arg[p])
  /\ Goto(p, "r_set")
  /\ UNCHANGED <<allow, rbl, sessions, lastUsedAt, tokens, known, nextJti, nextSid, op,
                 arg, locals, cookieCleared, serial, ovars, xvars, hist>>

\* buildPair(user, record.sessionId ?? payload.sid)
RefreshSet(p) ==
  /\ pc[p] = "r_set"
  /\ buildPairSet(p, tokens[arg[p]].sub,
                  IF stored[p].sessionId # Null THEN stored[p].sessionId
                  ELSE tokens[arg[p]].sid)
  /\ Goto(p, "r_link")
  /\ UNCHANGED <<rbl, links, sessions, lastUsedAt, known, nextSid, op, arg, stored,
                 cookieCleared, serial, ovars, xvars, hist>>

RefreshLink(p) ==
  /\ pc[p] = "r_link"
  /\ linkRefreshJti(tokens[arg[p]].sub, sess[p], newJti[p])
  /\ Finish(p, "ok")
  /\ succ' = [succ EXCEPT ![arg[p]] = @ + 1]
  /\ UNCHANGED <<allow, rbl, sessions, lastUsedAt, tokens, known, nextJti, nextSid, op,
                 arg, locals, cookieCleared, serial, ovars, xvars, revoked, start, prev>>

\* --- revoke(refreshToken), called directly or by AuthController.logout -----
RevokeStart(p, t) ==
  /\ t \in Presentable
  /\ Begin(p, "revoke", t, "v_del")
  /\ UNCHANGED <<store, sessions, lastUsedAt, tokens, known, nextJti, nextSid, locals, res,
                 resp, cookieCleared, serial, ovars, xvars, succ, revoked, prev>>

\* logout: read the token, always clear the cookie, return at once without a token
LogoutStart(p, t) ==
  /\ t \in Presentable
  /\ MayStart(p)
  /\ op' = [op EXCEPT ![p] = "logout"]
  /\ arg' = [arg EXCEPT ![p] = t]
  /\ start' = [start EXCEPT ![p] = StartFlags(t)]
  /\ cookieCleared' = [cookieCleared EXCEPT ![p] = TRUE]
  /\ IF t = NoTok THEN FinishAs(p, "logout", "success") ELSE Goto(p, "v_del")
  /\ UNCHANGED <<store, sessions, lastUsedAt, tokens, known, nextJti, nextSid, locals,
                 serial, ovars, xvars, succ, revoked, prev>>

LogoutResult_Rethrow(p, inner) == IF inner = "ok" THEN "success" ELSE inner
\* logout: try { await revoke } catch { } and { success: true } either way
LogoutResult(p, inner) == "success"

Outcome(p, inner) == IF op[p] = "logout" THEN LogoutResult(p, inner) ELSE inner

delAllow_Skip(jti) == UNCHANGED allow
\* revoke: redis.del(refreshKey(jti))
delAllow(jti) == allow' = [allow EXCEPT ![jti] = NoEntry]

RevokeDel(p) ==
  /\ pc[p] = "v_del"
  /\ LET v == verifyRefreshToken(arg[p], TRUE, TRUE) IN
       IF v = "ok"
       THEN delAllow(arg[p]) /\ Goto(p, "v_blacklist")
       ELSE UNCHANGED allow /\ Finish(p, Outcome(p, v))
  /\ UNCHANGED <<rbl, links, sessions, lastUsedAt, tokens, known, nextJti, nextSid, op,
                 arg, locals, cookieCleared, serial, ovars, xvars, hist>>

RevokeBlacklist(p) ==
  /\ pc[p] = "v_blacklist"
  /\ blacklistRefreshJti(arg[p], RefreshTtl)
  /\ Goto(p, "v_unlink")
  /\ UNCHANGED <<allow, links, sessions, lastUsedAt, tokens, known, nextJti, nextSid, op,
                 arg, locals, cookieCleared, serial, ovars, xvars, hist>>

RevokeUnlink(p) ==
  /\ pc[p] = "v_unlink"
  /\ unlinkRefreshJti(tokens[arg[p]].sub, tokens[arg[p]].sid, arg[p])
  /\ Finish(p, Outcome(p, "ok"))
  /\ revoked' = revoked \cup {arg[p]}
  /\ UNCHANGED <<allow, rbl, sessions, lastUsedAt, tokens, known, nextJti, nextSid, op,
                 arg, locals, cookieCleared, serial, ovars, xvars, succ, start, prev>>

\* --- PasswordService.login: the userId, or why it threw ----------------------
Identifiers == Users \cup {"nobody"}
Passwords == {"right", "wrong"}

passwordLogin(identifier, password) ==
  IF identifier \notin Users THEN "identifier not found"
  ELSE IF password # "right" THEN "wrong password"
  ELSE "ok"

\* login whose password.login throws: the catch answers 401 before sessions.create
LoginDenied(p, identifier, password) ==
  /\ MayStart(p)
  /\ passwordLogin(identifier, password) # "ok"
  /\ op' = [op EXCEPT ![p] = "login"]
  /\ FinishAs(p, "login", passwordLogin(identifier, password))
  /\ UNCHANGED <<store, sessions, lastUsedAt, tokens, known, nextJti, nextSid, arg, locals,
                 cookieCleared, serial, ovars, xvars, hist>>

\* --- another writer of the store (the e2e suite does it with redis.set): the
\* allow-list entry of a token in circulation is overwritten, without a TTL
OtherSid == 100 + MaxSid + 1

Overwrites(j) ==
  { [text |-> "not-json", userId |-> "none", sessionId |-> Null, ttl |-> NoTtl],
    [text |-> "1", userId |-> "none", sessionId |-> Null, ttl |-> NoTtl],
    [text |-> "json", userId |-> "user-1", sessionId |-> allow[j].sessionId,
     ttl |-> NoTtl],
    [text |-> "json", userId |-> tokens[j].sub, sessionId |-> OtherSid, ttl |-> NoTtl],
    [text |-> "json", userId |-> tokens[j].sub, sessionId |-> Null, ttl |-> NoTtl] }

RedisSet(j, v) ==
  /\ AllIdle
  /\ j \in known
  /\ IsPresent(allow[j])
  /\ \A k \in Jtis : allow[k].ttl # NoTtl
  /\ v \in Overwrites(j)
  /\ allow' = [allow EXCEPT ![j] = v]
  /\ prev' = NoPrev
  /\ UNCHANGED <<rbl, links, sessions, lastUsedAt, tokens, known, nextJti, nextSid, pc, op,
                 arg, locals, res, resp, cookieCleared, serial, ovars, xvars, succ,
                 revoked, start>>

\* --- the response reaches the client; the request slot is free again -------
Return(p) ==
  /\ pc[p] = "done"
  /\ known' = IF res[p] = "ok" /\ op[p] \in {"refresh", "login", "issue"}
              THEN known \cup {newJti[p]} ELSE known
  /\ prev' = IF serial /\ op[p] = "logout"
             THEN [op |-> op[p], arg |-> arg[p], allow |-> allow, rbl |-> rbl, links |-> links]
             ELSE NoPrev
  /\ pc' = [pc EXCEPT ![p] = "idle"]
  /\ op' = [op EXCEPT ![p] = "none"]
  /\ arg' = [arg EXCEPT ![p] = NoTok]
  /\ stored' = [stored EXCEPT ![p] = NoEntry]
  /\ sess' = [sess EXCEPT ![p] = Null]
  /\ newJti' = [newJti EXCEPT ![p] = Null]
  /\ res' = [res EXCEPT ![p] = "none"]
  /\ resp' = [resp EXCEPT ![p] = NoResp]
  /\ req' = [req EXCEPT ![p] = NoReq]
  /\ cookieCleared' = [cookieCleared EXCEPT ![p] = FALSE]
  /\ start' = [start EXCEPT ![p] = NoStart]
  /\ UNCHANGED <<store, sessions, lastUsedAt, tokens, nextJti, nextSid, serial, ovars,
                 cvars, tvars, rrl,
                 rejected, faulted, succ, revoked>>

\* --- store TTLs and token expiry: one time unit passes between requests ----
Dec(n) == IF n > 0 THEN n - 1 ELSE 0

RefreshTick ==
  /\ AllIdle
  /\ \E j \in Jtis : allow[j].ttl > 0 \/ rbl[j] > 0 \/ tokens[j].exp > 0
  /\ allow' = [j \in Jtis |-> IF allow[j].ttl = NoTtl THEN allow[j]
                               ELSE IF allow[j].ttl > 1
                               THEN [allow[j] EXCEPT !.ttl = @ - 1] ELSE NoEntry]
  /\ rbl' = [j \in Jtis |-> Dec(rbl[j])]
  /\ tokens' = [j \in Jtis |-> [tokens[j] EXCEPT !.exp = Dec(@)]]
  /\ prev' = NoPrev
  /\ rrl' = IF rrl.ttl > 0 THEN NoHits ELSE rrl
  /\ UNCHANGED <<links, sessions, lastUsedAt, known, nextJti, nextSid, pc, op, arg, locals,
                 res, resp, cookieCleared, serial, ovars, cvars, tvars, req,
                 rejected, faulted, succ, revoked, start>>

RefreshInitCommon ==
  /\ allow = [j \in Jtis |-> NoEntry]
  /\ rbl = [j \in Jtis |-> 0]
  /\ links = {}
  /\ sessions = {}
  /\ tokens = [j \in Jtis |-> NoToken]
  /\ known = {}
  /\ nextJti = 1
  /\ nextSid = 1
  /\ pc = [p \in Procs |-> "idle"]
  /\ op = [p \in Procs |-> "none"]
  /\ arg = [p \in Procs |-> NoTok]
  /\ stored = [p \in Procs |-> NoEntry]
  /\ sess = [p \in Procs |-> Null]
  /\ newJti = [p \in Procs |-> Null]
  /\ res = [p \in Procs |-> "none"]
  /\ resp = [p \in Procs |-> NoResp]
  /\ lastUsedAt = [s \in SessionIds |-> 0]
  /\ cookieCleared = [p \in Procs |-> FALSE]
  /\ succ = [j \in Jtis |-> 0]
  /\ revoked = {}
  /\ start = [p \in Procs |-> NoStart]
  /\ prev = NoPrev

RefreshSteps ==
  \/ \E p \in Procs, u \in Users : IssueStart(p, u)
  \/ \E p \in Procs, u \in Users : LoginStart(p, u)
  \/ \E p \in Procs : SessionCreate(p)
  \/ \E p \in Procs : IssueSet(p)
  \/ \E p \in Procs : IssueLink(p)
  \/ \E p \in Procs, t \in Jtis \cup {NoTok, Forged} : RefreshStart(p, t)
  \/ \E p \in Procs : RefreshVerify(p)
  \/ \E p \in Procs : RefreshGetDel(p)
  \/ \E p \in Procs : RefreshBlacklist(p)
  \/ \E p \in Procs : RefreshUnlink(p)
  \/ \E p \in Procs : RefreshSet(p)
  \/ \E p \in Procs : RefreshLink(p)
  \/ \E p \in Procs : RevokeDel(p)
  \/ \E p \in Procs : RevokeBlacklist(p)
  \/ \E p \in Procs : RevokeUnlink(p)
  \/ \E p \in Procs : Return(p)
  \/ RefreshTick

\* interleaved requests against RefreshService
RefreshNext ==
  \/ RefreshSteps
  \/ \E p \in Procs, t \in Jtis \cup {NoTok, Forged} : RevokeStart(p, t)

\* one request at a time through the controller
RefreshSeqNext ==
  \/ RefreshSteps
  \/ \E p \in Procs, t \in Jtis \cup {NoTok, Forged} : LogoutStart(p, t)

\* one request at a time through the controller, failed logins and overwritten
\* allow-list entries included
AuthNext ==
  \/ RefreshSeqNext
  \/ \E p \in Procs, i \in Identifiers, w \in Passwords : LoginDenied(p, i, w)
  \/ \E j \in Jtis : \E v \in Overwrites(j) : RedisSet(j, v)

\* ======================================================================
\* OTP state machine for one (purpose, channel, identifier) tuple.
\* Time is counted in units of 60 s; a TTL of -1 is a key without expiry.
\* ======================================================================
OTP_TTL == 5                 \* OTP_VERIFY_WINDOW ?? 300
RESEND_COOLDOWN == 2         \* OTP_REQUEST_WINDOW ?? 120
OTP_VERIFY_MAX == 5          \* OTP_VERIFY_MAX ?? 5: attempts cap and verify bucket max
OTP_REQUEST_MAX == 3         \* OTP_REQUEST_MAX ?? 3
REQUEST_WINDOW == 1          \* rate limiter: OTP_REQUEST_WINDOW ?? 60
VERIFY_WINDOW == 2           \* rate limiter: OTP_VERIFY_WINDOW ?? 120
OTP_BLOCK_WINDOW == 15       \* OTP_BLOCK_WINDOW ?? 900
TICKET_TTL_SEC == 10         \* SET_PWD_JWT_EXPIRES ?? '10m'

MaxCodes == 2      \* codes generated in one behaviour
MaxTickets == 2    \* tickets minted in one behaviour
MaxOne == 2        \* one-time jtis
MaxOneTtl == 2     \* ttlSec values given to allowOneTime
MaxAllow == 1      \* allowOneTime calls per jti

WrongCode == 0     \* a code that was never dispatched
NoRec == [exists |-> FALSE, codeHash |-> 0, attempts |-> 0, exp |-> 0, resendAt |-> 0,
          ttl |-> 0]
NoCtr == [count |-> 0, ttl |-> 0]
NoOStart == [active |-> FALSE, cooldown |-> FALSE, blocked |-> FALSE, used |-> FALSE,
             rec |-> NoRec, sent |-> 0, cd |-> 0, blk |-> 0, rlReq |-> NoCtr, code |-> 0]

\* sha256Hex on the codes of the model: injective, not the identity
sha256Hex(code) == 1000 + code

OIdle(p) == opc[p] = "idle"
OAllIdle == \A q \in Procs : OIdle(q)
OMayStart(p) == OIdle(p) /\ (oserial => OAllIdle)
Issuing == Cardinality({q \in Procs : opc[q] \notin {"idle", "done"}
                                      /\ oop[q] \in {"request", "resend"}})
Verifying == Cardinality({q \in Procs : opc[q] \notin {"idle", "done"}
                                        /\ oop[q] = "verify"})

\* recorded for requests that run one at a time
OStartFlags(c) ==
  IF oserial
  THEN [active |-> rec.exists, cooldown |-> rec.exists /\ rec.resendAt > 0,
        blocked |-> blk > 0, used |-> c \in used, rec |-> rec,
        sent |-> Cardinality(sent), cd |-> cd, blk |-> blk, rlReq |-> rlReq,
        code |-> nextCode]
  ELSE NoOStart

OBegin(p, o, c, first) ==
  /\ OMayStart(p)
  /\ opc' = [opc EXCEPT ![p] = first]
  /\ oop' = [oop EXCEPT ![p] = o]
  /\ ocode' = [ocode EXCEPT ![p] = c]
  /\ ostart' = [ostart EXCEPT ![p] = OStartFlags(c)]

OFinish(p, r) ==
  /\ opc' = [opc EXCEPT ![p] = "done"]
  /\ ores' = [ores EXCEPT ![p] = r]

OGoto(p, label) ==
  /\ opc' = [opc EXCEPT ![p] = label]
  /\ UNCHANGED ores

\* ------------------------------------------------- OtpRateLimitService.bump
Incr_Sliding(ctr, max) ==
  IF ctr.count = 0 THEN [count |-> 1, ttl |-> NoTtl]
  ELSE [count |-> IF ctr.count > max THEN ctr.count ELSE ctr.count + 1,
        ttl |-> IF ctr.ttl > 0 THEN ctr.ttl + 1 ELSE ctr.ttl]
\* INCR; counts above max + 1 are kept at max + 1 (they are rejected alike)
Incr(ctr, max) ==
  IF ctr.count = 0 THEN [count |-> 1, ttl |-> NoTtl]
  ELSE [ctr EXCEPT !.count = IF @ > max THEN @ ELSE @ + 1]

\* EXPIRE key windowSec
Expire(ctr, windowSec) == IF ctr.count = 0 THEN ctr ELSE [ctr EXCEPT !.ttl = windowSec]

\* ------------------------------------------------------ requestOtp / resendOtp
RequestStart(p) ==
  /\ nextCode + Issuing <= MaxCodes
  /\ OBegin(p, "request", WrongCode, "q_incr")
  /\ UNCHANGED <<rec, cd, blk, rlReq, rlVer, tickets, nextCode, nextTicket, sent, lhash,
                 ores, oserial, rvars, xvars, used, cases, admitted, fails>>

ResendStart(p) ==
  /\ nextCode + Issuing <= MaxCodes
  /\ OBegin(p, "resend", WrongCode, "s_incr")
  /\ UNCHANGED <<rec, cd, blk, rlReq, rlVer, tickets, nextCode, nextTicket, sent, lhash,
                 ores, oserial, rvars, xvars, used, cases, admitted, fails>>

Admit(bucket, count, max) ==
  admitted' = IF count > max THEN admitted ELSE [admitted EXCEPT ![bucket] = @ + 1]

\* consumeRequestBucket: bump (INCR, then EXPIRE on the first hit), count > max -> 429
RequestIncr(p) ==
  /\ opc[p] \in {"q_incr", "s_incr"}
  /\ rlReq' = Incr(rlReq, OTP_REQUEST_MAX)
  /\ LET count == rlReq'.count
         after == IF opc[p] = "q_incr" THEN "q_block" ELSE "s_read"
         expire == IF opc[p] = "q_incr" THEN "q_expire" ELSE "s_expire"
     IN /\ Admit("req", count, OTP_REQUEST_MAX)
        /\ IF count = 1 THEN OGoto(p, expire)
           ELSE IF count > OTP_REQUEST_MAX THEN OFinish(p, "TooManyRequests")
           ELSE OGoto(p, after)
  /\ UNCHANGED <<rec, cd, blk, rlVer, tickets, nextCode, nextTicket, sent, oop, ocode,
                 lhash, oserial, rvars, xvars, used, cases, fails, ostart>>

RequestExpire(p) ==
  /\ opc[p] \in {"q_expire", "s_expire"}
  /\ rlReq' = Expire(rlReq, REQUEST_WINDOW)
  /\ OGoto(p, IF opc[p] = "q_expire" THEN "q_block" ELSE "s_read")
  /\ UNCHANGED <<rec, cd, blk, rlVer, tickets, nextCode, nextTicket, sent, oop, ocode,
                 lhash, oserial, rvars, xvars, used, cases, admitted, fails, ostart>>

\* requestOtp: EXISTS blockKey
RequestBlockCheck(p) ==
  /\ opc[p] = "q_block"
  /\ IF blk > 0 THEN OFinish(p, "Forbidden") ELSE OGoto(p, "q_read")
  /\ UNCHANGED <<rec, cd, blk, rlReq, rlVer, tickets, nextCode, nextTicket, sent, oop,
                 ocode, lhash, oserial, rvars, xvars, used, cases, admitted, fails,
                 ostart>>

resendRemaining_Zero(r) == 0
\* Math.max(0, Number(hash.resendAt ?? '0') - now) of the record read, 0 without one
resendRemaining(r) == IF r.exists THEN r.resendAt ELSE 0

\* requestOtp: HGETALL activeKey; under cooldown answer alreadyActive
RequestRead(p) ==
  /\ opc[p] = "q_read"
  /\ IF resendRemaining(rec) > 0
     THEN OFinish(p, "alreadyActive") ELSE OGoto(p, "q_write")
  /\ UNCHANGED <<rec, cd, blk, rlReq, rlVer, tickets, nextCode, nextTicket, sent, oop,
                 ocode, lhash, oserial, rvars, xvars, used, cases, admitted, fails,
                 ostart>>

\* resendOtp: HGETALL activeKey; no record -> requestOtp from its start
ResendRead(p) ==
  /\ opc[p] = "s_read"
  /\ IF ~rec.exists THEN OGoto(p, "q_incr")
     ELSE IF resendRemaining(rec) > 0 THEN OFinish(p, "alreadyActive")
     ELSE OGoto(p, "q_write")
  /\ UNCHANGED <<rec, cd, blk, rlReq, rlVer, tickets, nextCode, nextTicket, sent, oop,
                 ocode, lhash, oserial, rvars, xvars, used, cases, admitted, fails,
                 ostart>>

\* issueNewCode: MULTI hset activeKey {...}, expire activeKey, set cooldownKey EX
IssueWrite(p) ==
  /\ opc[p] = "q_write"
  /\ rec' = [exists |-> TRUE, codeHash |-> sha256Hex(nextCode), attempts |-> 0,
             exp |-> OTP_TTL, resendAt |-> RESEND_COOLDOWN, ttl |-> OTP_TTL]
  /\ cd' = RESEND_COOLDOWN
  /\ lhash' = [lhash EXCEPT ![p] = nextCode]
  /\ nextCode' = nextCode + 1
  /\ fails' = 0
  /\ OGoto(p, "q_send")
  /\ UNCHANGED <<blk, rlReq, rlVer, tickets, nextTicket, sent, oop, ocode, oserial, rvars,
                 xvars, used, cases, admitted, ostart>>

\* issueNewCode: sms.sendOtp / mail.sendOtp, then the response
IssueSend(p) ==
  /\ opc[p] = "q_send"
  /\ sent' = sent \cup {lhash[p]}
  /\ OFinish(p, "issued")
  /\ UNCHANGED <<rec, cd, blk, rlReq, rlVer, tickets, nextCode, nextTicket, oop, ocode,
                 lhash, oserial, rvars, xvars, used, cases, admitted, fails, ostart>>

\* ------------------------------------------------------------------ verifyOtp
VerifyStart(p, c) ==
  /\ c \in sent \cup {WrongCode}
  /\ nextTicket + Verifying <= MaxTickets
  /\ OBegin(p, "verify", c, "v_incr")
  /\ UNCHANGED <<rec, cd, blk, rlReq, rlVer, tickets, nextCode, nextTicket, sent, lhash,
                 ores, oserial, rvars, xvars, used, cases, admitted, fails>>

FailVerify(p, r) ==
  /\ OFinish(p, r)
  /\ fails' = IF ostart[p].active /\ fails <= OTP_VERIFY_MAX + 1 THEN fails + 1 ELSE fails

verifyFailure_Leaky(case) ==
  IF case = "norecord" THEN [kind |-> "NotFound", message |-> "No active code."]
  ELSE [kind |-> "BadRequest", message |-> "Invalid or expired code."]
\* the exception thrown when no hash is found, when exp <= now, when the hashes differ
verifyFailure(case) ==
  CASE case = "norecord" -> [kind |-> "BadRequest", message |-> "Invalid or expired code."]
    [] case = "expired" -> [kind |-> "BadRequest", message |-> "Invalid or expired code."]
    [] case = "mismatch" -> [kind |-> "BadRequest", message |-> "Invalid or expired code."]

ThrowInvalid(p, case) ==
  /\ FailVerify(p, verifyFailure(case).kind)
  /\ cases' = IF oserial THEN cases \cup {<<case, verifyFailure(case)>>} ELSE cases

VerifyIncr(p) ==
  /\ opc[p] = "v_incr"
  /\ rlVer' = Incr(rlVer, OTP_VERIFY_MAX)
  /\ LET count == rlVer'.count
     IN /\ Admit("ver", count, OTP_VERIFY_MAX)
        /\ IF count = 1 THEN OGoto(p, "v_expire") /\ UNCHANGED fails
           ELSE IF count > OTP_VERIFY_MAX THEN FailVerify(p, "TooManyRequests")
           ELSE OGoto(p, "v_block") /\ UNCHANGED fails
  /\ UNCHANGED <<rec, cd, blk, rlReq, tickets, nextCode, nextTicket, sent, oop, ocode,
                 lhash, oserial, rvars, xvars, used, cases, ostart>>

VerifyExpire(p) ==
  /\ opc[p] = "v_expire"
  /\ rlVer' = Expire(rlVer, VERIFY_WINDOW)
  /\ OGoto(p, "v_block")
  /\ UNCHANGED <<rec, cd, blk, rlReq, tickets, nextCode, nextTicket, sent, oop, ocode,
                 lhash, oserial, rvars, xvars, used, cases, admitted, fails, ostart>>

VerifyBlockCheck(p) ==
  /\ opc[p] = "v_block"
  /\ IF blk > 0 THEN FailVerify(p, "Forbidden")
     ELSE OGoto(p, "v_read") /\ UNCHANGED fails
  /\ UNCHANGED <<rec, cd, blk, rlReq, rlVer, tickets, nextCode, nextTicket, sent, oop,
                 ocode, lhash, oserial, rvars, xvars, used, cases, admitted, ostart>>

\* HGETALL activeKey: no record -> 400; exp <= now -> DEL and 400
VerifyRead(p) ==
  /\ opc[p] = "v_read"
  /\ lhash' = [lhash EXCEPT ![p] = rec.codeHash]
  /\ IF ~rec.exists THEN ThrowInvalid(p, "norecord")
     ELSE IF rec.exp <= 0 THEN OGoto(p, "v_delstale") /\ UNCHANGED <<fails, cases>>
     ELSE OGoto(p, "v_hincr") /\ UNCHANGED <<fails, cases>>
  /\ UNCHANGED <<rec, cd, blk, rlReq, rlVer, tickets, nextCode, nextTicket, sent, oop,
                 ocode, oserial, rvars, xvars, used, admitted, ostart>>

VerifyDelStale(p) ==
  /\ opc[p] = "v_delstale"
  /\ rec' = NoRec
  /\ ThrowInvalid(p, "expired")
  /\ UNCHANGED <<cd, blk, rlReq, rlVer, tickets, nextCode, nextTicket, sent, oop, ocode,
                 lhash, oserial, rvars, xvars, used, admitted, ostart>>

\* HINCRBY activeKey attempts 1: creates the hash (without TTL) when it is gone
hincrbyAttempts ==
  IF rec.exists THEN [rec EXCEPT !.attempts = @ + 1]
  ELSE [NoRec EXCEPT !.exists = TRUE, !.attempts = 1, !.ttl = NoTtl]

VerifyHincr(p) ==
  /\ opc[p] = "v_hincr"
  /\ rec' = hincrbyAttempts
  /\ LET attempts == rec'.attempts
     IN IF attempts > OTP_VERIFY_MAX
        THEN OGoto(p, "v_setblock") /\ UNCHANGED <<fails, cases>>
        ELSE IF lhash[p] # sha256Hex(ocode[p]) THEN ThrowInvalid(p, "mismatch")
        ELSE OGoto(p, "v_success") /\ UNCHANGED <<fails, cases>>
  /\ UNCHANGED <<cd, blk, rlReq, rlVer, tickets, nextCode, nextTicket, sent, oop, ocode,
                 lhash, oserial, rvars, xvars, used, admitted, ostart>>

\* MULTI del activeKey, set blockKey '1' EX blockWindowSeconds
VerifySetBlock(p) ==
  /\ opc[p] = "v_setblock"
  /\ rec' = NoRec
  /\ blk' = OTP_BLOCK_WINDOW
  /\ FailVerify(p, "Forbidden")
  /\ UNCHANGED <<cd, rlReq, rlVer, tickets, nextCode, nextTicket, sent, oop, ocode, lhash,
                 oserial, rvars, xvars, used, cases, admitted, ostart>>

delActive_Skip(r) == r
\* multi.del(activeKey) of the success path
delActive(r) == NoRec

\* MULTI del activeKey, del cooldownKey, set otp:ticket:<jti> sha256(ticket) EX ttl
VerifySuccess(p) ==
  /\ opc[p] = "v_success"
  /\ rec' = delActive(rec)
  /\ cd' = 0
  /\ tickets' = tickets \cup {[jti |-> nextTicket, hash |-> sha256Hex(nextTicket),
                               ex |-> TICKET_TTL_SEC]}
  /\ nextTicket' = nextTicket + 1
  /\ used' = used \cup {ocode[p]}
  /\ OFinish(p, "ticket")
  /\ UNCHANGED <<blk, rlReq, rlVer, nextCode, sent, oop, ocode, lhash, oserial, rvars,
                 xvars, fails, cases, admitted, ostart>>

OtpReturn(p) ==
  /\ opc[p] = "done"
  /\ opc' = [opc EXCEPT ![p] = "idle"]
  /\ oop' = [oop EXCEPT ![p] = "none"]
  /\ ocode' = [ocode EXCEPT ![p] = WrongCode]
  /\ lhash' = [lhash EXCEPT ![p] = 0]
  /\ ores' = [ores EXCEPT ![p] = "none"]
  /\ ostart' = [ostart EXCEPT ![p] = NoOStart]
  /\ UNCHANGED <<rec, cd, blk, rlReq, rlVer, tickets, nextCode, nextTicket, sent, oserial,
                 rvars, xvars, used, cases, admitted, fails>>

\* one time unit passes between requests: every TTL and deadline moves by one
AgeCtr(ctr) == IF ctr.ttl = NoTtl \/ ctr.count = 0 THEN ctr
               ELSE IF ctr.ttl > 1 THEN [ctr EXCEPT !.ttl = @ - 1] ELSE NoCtr

\* exp is now + OTP_TTL in whole seconds, taken before the MULTI that sets the key's
\* TTL: the key can outlive its exp field by a fraction of a second, so the unit
\* that brings exp to 0 either expires the key with it or leaves it for a moment
AgeRec(r) ==
  IF ~r.exists THEN {r}
  ELSE IF r.ttl = NoTtl THEN {[r EXCEPT !.exp = Dec(@), !.resendAt = Dec(@)]}
  ELSE IF r.exp > 1
  THEN {[r EXCEPT !.ttl = @ - 1, !.exp = Dec(@), !.resendAt = Dec(@)]}
  ELSE IF r.exp = 1 THEN {NoRec, [r EXCEPT !.exp = 0, !.resendAt = 0]}
  ELSE {NoRec}

OtpTick ==
  /\ OAllIdle
  /\ (rec.exists /\ rec.ttl # NoTtl) \/ cd > 0 \/ blk > 0 \/ rlReq.ttl > 0 \/ rlVer.ttl > 0
  /\ rec' \in AgeRec(rec)
  /\ cd' = Dec(cd)
  /\ blk' = Dec(blk)
  /\ rlReq' = AgeCtr(rlReq)
  /\ rlVer' = AgeCtr(rlVer)
  /\ admitted' = [req |-> IF rlReq'.count = 0 THEN 0 ELSE admitted.req,
                  ver |-> IF rlVer'.count = 0 THEN 0 ELSE admitted.ver]
  /\ UNCHANGED <<tickets, nextCode, nextTicket, sent, opc, oop, ocode, lhash, ores,
                 oserial, rvars, xvars, used, cases, fails, ostart>>

OtpInitCommon ==
  /\ rec = NoRec
  /\ cd = 0
  /\ blk = 0
  /\ rlReq = NoCtr
  /\ rlVer = NoCtr
  /\ tickets = {}
  /\ nextCode = 1
  /\ nextTicket = 1
  /\ sent = {}
  /\ opc = [p \in Procs |-> "idle"]
  /\ oop = [p \in Procs |-> "none"]
  /\ ocode = [p \in Procs |-> WrongCode]
  /\ lhash = [p \in Procs |-> 0]
  /\ ores = [p \in Procs |-> "none"]
  /\ fails = 0
  /\ used = {}
  /\ cases = {}
  /\ admitted = [req |-> 0, ver |-> 0]
  /\ ostart = [p \in Procs |-> NoOStart]

OtpNext ==
  \/ \E p \in Procs : RequestStart(p)
  \/ \E p \in Procs : ResendStart(p)
  \/ \E p \in Procs : RequestIncr(p)
  \/ \E p \in Procs : RequestExpire(p)
  \/ \E p \in Procs : RequestBlockCheck(p)
  \/ \E p \in Procs : RequestRead(p)
  \/ \E p \in Procs : ResendRead(p)
  \/ \E p \in Procs : IssueWrite(p)
  \/ \E p \in Procs : IssueSend(p)
  \/ \E p \in Procs, c \in 0..MaxCodes : VerifyStart(p, c)
  \/ \E p \in Procs : VerifyIncr(p)
  \/ \E p \in Procs : VerifyExpire(p)
  \/ \E p \in Procs : VerifyBlockCheck(p)
  \/ \E p \in Procs : VerifyRead(p)
  \/ \E p \in Procs : VerifyDelStale(p)
  \/ \E p \in Procs : VerifyHincr(p)
  \/ \E p \in Procs : VerifySetBlock(p)
  \/ \E p \in Procs : VerifySuccess(p)
  \/ \E p \in Procs : OtpReturn(p)
  \/ OtpTick

\* ------------------------------------------- POST /auth/refresh, the controller
REFRESH_RL_WINDOW == 1   \* REFRESH_RL_WINDOW ?? 10 seconds: gone with the next window step
REFRESH_RL_MAX == 5      \* REFRESH_RL_MAX ?? 5

\* the one client of the model: the rate-limit key ip|user-agent is the same for all
HttpProcs == {"p1"}
AllowedOrigins == {"front"}   \* resolveAllowedOrigins: FRONTEND_URL

\* normalizeOrigin: the origin of the URL, trailing slashes removed, lower-cased;
\* '' for an absent header
normalizeOrigin(value) ==
  CASE value = "absent" -> ""
    [] value \in {"front", "FRONT/", "front/page"} -> "front"
    [] value \in {"evil", "evil/page"} -> "evil"
    [] OTHER -> value

\* String(content-type || '').toLowerCase().includes('application/json')
isJson(ctype) == ctype \in {"application/json", "Application/JSON; charset=utf-8"}

\* the header combinations a client sends
Headers ==
  { [origin |-> "front", referer |-> "absent", ctype |-> "absent", len |-> 0],
    [origin |-> "absent", referer |-> "front/page", ctype |-> "application/json",
     len |-> 1],
    [origin |-> "FRONT/", referer |-> "absent",
     ctype |-> "Application/JSON; charset=utf-8", len |-> 1],
    [origin |-> "evil", referer |-> "front/page", ctype |-> "absent", len |-> 0],
    [origin |-> "front", referer |-> "absent", ctype |-> "text/plain", len |-> 0],
    [origin |-> "evil", referer |-> "absent", ctype |-> "absent", len |-> 0],
    [origin |-> "absent", referer |-> "absent", ctype |-> "application/json", len |-> 1],
    [origin |-> "absent", referer |-> "evil/page", ctype |-> "absent", len |-> 0],
    [origin |-> "front", referer |-> "absent", ctype |-> "text/plain", len |-> 1],
    [origin |-> "front", referer |-> "absent", ctype |-> "absent", len |-> 1],
    [origin |-> "evil", referer |-> "absent", ctype |-> "text/plain", len |-> 1] }

\* refresh_token cookie and body.refreshToken of a request: one of them, both, none
Requests ==
  { [cookie |-> c, body |-> b, headers |-> h] :
      c \in known \cup {NoTok, Forged}, b \in known \cup {NoTok}, h \in Headers }

\* assertJsonOrEmpty: "ok" or the message of the BadRequestException
assertJsonOrEmpty(h) ==
  IF h.len = 0 THEN "ok"
  ELSE IF ~isJson(h.ctype) THEN "Content-Type must be application/json."
  ELSE "ok"

\* assertAllowedOrigin: "ok" or the message of the ForbiddenException
assertAllowedOrigin(h) ==
  LET originHeader == normalizeOrigin(h.origin)
      refererHeader == normalizeOrigin(h.referer)
      originAllowed == \/ (originHeader # "" /\ originHeader \in AllowedOrigins)
                       \/ (refererHeader # "" /\ refererHeader \in AllowedOrigins)
  IN IF AllowedOrigins = {} THEN "ok"
     ELSE IF originAllowed THEN "ok"
     ELSE "Origin is not allowed for refresh."

\* the checks refresh() runs before its first await, in their order
headerChecks(h) ==
  IF assertJsonOrEmpty(h) # "ok" THEN assertJsonOrEmpty(h) ELSE assertAllowedOrigin(h)

getRefreshToken_Body(r, fallback) ==
  IF r.cookie # NoTok THEN r.cookie
  ELSE IF r.body # NoTok THEN r.body ELSE fallback
\* getRefreshToken(req, fallback): the trimmed cookie, else the fallback
getRefreshToken(r, fallback) == IF r.cookie # NoTok THEN r.cookie ELSE fallback

RejectEarly_Counted(p, why) ==
  /\ FinishAs(p, "refresh", why)
  /\ rrl' = [count |-> rrl.count + 1, ttl |-> REFRESH_RL_WINDOW]
\* an exception of the header checks: nothing was awaited, no store call was made
RejectEarly(p, why) ==
  /\ FinishAs(p, "refresh", why)
  /\ UNCHANGED rrl

\* refresh(req, res) up to its first await
HttpRefresh(p, r) ==
  /\ MayStart(p)
  /\ nextJti + InFlightMinting <= MaxJti
  /\ known # {}
  /\ op' = [op EXCEPT ![p] = "refresh"]
  /\ arg' = [arg EXCEPT ![p] = NoTok]
  /\ start' = [start EXCEPT ![p] = NoStart]
  /\ IF headerChecks(r.headers) # "ok"
     THEN /\ RejectEarly(p, headerChecks(r.headers))
          /\ req' = [req EXCEPT ![p] = r]
          /\ rejected' = IF r.cookie \in Jtis THEN r.cookie ELSE rejected
     ELSE /\ Goto(p, "h_incr")
          /\ req' = [req EXCEPT ![p] = [r EXCEPT !.headers = NoHeaders]]
          /\ UNCHANGED <<rrl, rejected>>
  /\ UNCHANGED <<store, sessions, lastUsedAt, tokens, known, nextJti, nextSid, locals,
                 cookieCleared, serial, ovars, cvars, tvars, faulted, succ, revoked, prev>>

\* after consume(): getRefreshToken(req, null), 401 MissingRefresh without a token,
\* else RefreshService.refresh(refreshToken) begins
AfterConsume(p) ==
  LET refreshToken == getRefreshToken(req[p], NoTok) IN
  IF refreshToken = NoTok
  THEN /\ Finish(p, "No refresh cookie")
       /\ UNCHANGED <<arg, start>>
  ELSE /\ Goto(p, "r_verify")
       /\ arg' = [arg EXCEPT ![p] = refreshToken]
       /\ start' = [start EXCEPT ![p] = StartFlags(refreshToken)]

\* RefreshRateLimitService.consume: hits = INCR key (counts above max + 1 are kept at
\* max + 1, they are rejected alike)
HttpIncr(p) ==
  /\ pc[p] = "h_incr"
  /\ LET hits == IF rrl.count > REFRESH_RL_MAX THEN rrl.count ELSE rrl.count + 1 IN
       /\ rrl' = [count |-> hits, ttl |-> IF rrl.count = 0 THEN NoTtl ELSE rrl.ttl]
       /\ IF hits = 1 THEN Goto(p, "h_expire") /\ UNCHANGED <<arg, start>>
          ELSE IF hits > REFRESH_RL_MAX
          THEN /\ Finish(p, "Too many refresh attempts. Please try again later.")
               /\ UNCHANGED <<arg, start>>
          ELSE AfterConsume(p)
  /\ UNCHANGED <<store, sessions, lastUsedAt, tokens, known, nextJti, nextSid, op, locals,
                 cookieCleared, serial, ovars, cvars, tvars, req, rejected, faulted, succ,
                 revoked, prev>>

\* consume: hits === 1, EXPIRE key windowSec
HttpExpire(p) ==
  /\ pc[p] = "h_expire"
  /\ rrl' = [rrl EXCEPT !.ttl = REFRESH_RL_WINDOW]
  /\ AfterConsume(p)
  /\ UNCHANGED <<store, sessions, lastUsedAt, tokens, known, nextJti, nextSid, op, locals,
                 cookieCleared, serial, ovars, cvars, tvars, req, rejected, faulted, succ,
                 revoked, prev>>

\* the rate-limit window passes between two requests
RateLimitWindow ==
  /\ AllIdle
  /\ rrl.ttl > 0
  /\ rrl' = NoHits
  /\ UNCHANGED <<rvars, ovars, cvars, tvars, req, rejected, faulted>>

HttpNext ==
  \/ \E p \in HttpProcs, u \in Users : LoginStart(p, u)
  \/ \E p \in HttpProcs : SessionCreate(p)
  \/ \E p \in HttpProcs : IssueSet(p)
  \/ \E p \in HttpProcs : IssueLink(p)
  \/ \E p \in HttpProcs : \E r \in Requests : HttpRefresh(p, r)
  \/ \E p \in HttpProcs : HttpIncr(p)
  \/ \E p \in HttpProcs : HttpExpire(p)
  \/ \E p \in HttpProcs : RefreshVerify(p)
  \/ \E p \in HttpProcs : RefreshGetDel(p)
  \/ \E p \in HttpProcs : RefreshBlacklist(p)
  \/ \E p \in HttpProcs : RefreshUnlink(p)
  \/ \E p \in HttpProcs : RefreshSet(p)
  \/ \E p \in HttpProcs : RefreshLink(p)
  \/ \E p \in HttpProcs : Return(p)
  \/ RefreshTick
  \/ RateLimitWindow

\* ------------------------------------- refresh with failing housekeeping calls
swallow_Rethrow(p, next) == Finish(p, "store error")
\* .catch(...) on the housekeeping promise: the error is logged or dropped, refresh
\* goes on
swallow(p, next) == Goto(p, next)

\* safeBlacklist: blacklistRefreshJti rejects (store error), nothing is written
RefreshBlacklistFails(p) ==
  /\ pc[p] = "r_blacklist"
  /\ swallow(p, IF stored[p].sessionId # Null THEN "r_unlink" ELSE "r_set")
  /\ faulted' = faulted \cup {arg[p]}
  /\ UNCHANGED <<store, sessions, lastUsedAt, tokens, known, nextJti, nextSid, op, arg,
                 locals, cookieCleared, serial, ovars, cvars, tvars, req, rrl, rejected,
                 hist>>

\* sessions.unlinkRefreshJti rejects (store error), the link stays
RefreshUnlinkFails(p) ==
  /\ pc[p] = "r_unlink"
  /\ swallow(p, "r_set")
  /\ faulted' = faulted \cup {arg[p]}
  /\ UNCHANGED <<store, sessions, lastUsedAt, tokens, known, nextJti, nextSid, op, arg,
                 locals, cookieCleared, serial, ovars, cvars, tvars, req, rrl, rejected,
                 hist>>

RefreshFaultNext ==
  \/ RefreshSeqNext
  \/ \E p \in Procs : RefreshBlacklistFails(p)
  \/ \E p \in Procs : RefreshUnlinkFails(p)

\* --------------------------------------------------- authConfig and the cookie
Unset == "unset"
NoCfg == [sameSite |-> "none", secure |-> FALSE, loaded |-> FALSE]
NoCookie == [set |-> FALSE, by |-> "none", httpOnly |-> FALSE, secure |-> FALSE,
             sameSite |-> "none"]

SameSiteEnv == {Unset, "strict", "lax", "none"}
SecureEnv == {Unset, "auto", "true", "YES", "1", "false", "off", "0", "maybe"}
NodeEnv == {Unset, "production", "PRODUCTION", "development", "test"}

\* String.prototype.toLowerCase on the values above
toLowerCase(v) ==
  CASE v = "PRODUCTION" -> "production"
    [] v = "YES" -> "yes"
    [] OTHER -> v

\* booleanLike: true / false, or Unset for undefined ('auto', anything else, absent)
booleanLike(value) ==
  LET normalized == toLowerCase(value) IN
  IF value = Unset THEN Unset
  ELSE IF normalized = "auto" THEN Unset
  ELSE IF normalized \in {"1", "true", "yes", "on"} THEN "true"
  ELSE IF normalized \in {"0", "false", "no", "off"} THEN "false"
  ELSE Unset

correctSecure_Keep(sameSite, secure) == secure
\* if (raw.COOKIE_SAMESITE === 'none' && secure === false) secure = true
correctSecure(sameSite, secure) ==
  IF sameSite = "none" /\ secure = FALSE THEN TRUE ELSE secure

\* authConfig: zod defaults, secure = COOKIE_SECURE ?? nodeEnv === 'production'
authConfig(e) ==
  LET sameSite == IF e.sameSite = Unset THEN "lax" ELSE e.sameSite
      nodeEnv == toLowerCase(IF e.nodeEnv = Unset THEN "development" ELSE e.nodeEnv)
      parsed == booleanLike(e.secure)
      secure == IF parsed = Unset THEN nodeEnv = "production" ELSE parsed = "true"
  IN [sameSite |-> sameSite, secure |-> correctSecure(sameSite, secure),
      loaded |-> TRUE]

\* the application boots: registerAs('auth', ...) runs once
LoadConfig ==
  /\ ~cookieCfg.loaded
  /\ cookieCfg' = authConfig(env)
  /\ UNCHANGED <<env, jar, tvars, hvars, rvars, ovars>>

\* setRefreshCookie as called by login and by refresh with a token
SetRefreshCookie(by) ==
  /\ cookieCfg.loaded
  /\ jar' = [set |-> TRUE, by |-> by, httpOnly |-> TRUE, secure |-> cookieCfg.secure,
             sameSite |-> cookieCfg.sameSite]
  /\ UNCHANGED <<env, cookieCfg, tvars, hvars, rvars, ovars>>

\* the process restarts with the same environment
Restart ==
  /\ cookieCfg.loaded
  /\ cookieCfg' = NoCfg
  /\ jar' = NoCookie
  /\ UNCHANGED <<env, tvars, hvars, rvars, ovars>>

CookieNext ==
  \/ LoadConfig
  \/ \E by \in {"login", "refresh"} : SetRefreshCookie(by)
  \/ Restart

\* ------------------------------------------------------- one-time tokens
OneJtis == 1..MaxOne
OneTtls == 1..MaxOneTtl

TInitCommon ==
  /\ onetime = [j \in OneJtis |-> 0]
  /\ tpc = [p \in Procs |-> "idle"]
  /\ targ = [p \in Procs |-> Null]
  /\ tres = [p \in Procs |-> FALSE]
  /\ allowed = [j \in OneJtis |-> 0]
  /\ granted = [j \in OneJtis |-> 0]

\* allowOneTime: SET keyOneTime(jti) '1' EX ttlSec
allowOneTime(j, ttlSec) ==
  /\ allowed[j] < MaxAllow
  /\ onetime' = [onetime EXCEPT ![j] = ttlSec]
  /\ allowed' = [allowed EXCEPT ![j] = @ + 1]
  /\ UNCHANGED <<tpc, targ, tres, granted, cvars, hvars, rvars, ovars>>

\* consumeOneTime up to its first await: exists = GET key; if (!exists) return false
ConsumeGet(p, j) ==
  /\ tpc[p] = "idle"
  /\ targ' = [targ EXCEPT ![p] = j]
  /\ IF onetime[j] > 0
       THEN /\ tpc' = [tpc EXCEPT ![p] = "t_del"]
            /\ UNCHANGED tres
       ELSE /\ tpc' = [tpc EXCEPT ![p] = "done"]
            /\ tres' = [tres EXCEPT ![p] = FALSE]
  /\ UNCHANGED <<onetime, allowed, granted, cvars, hvars, rvars, ovars>>

\* consumeOneTime after the read: DEL key; return true
ConsumeDel(p) ==
  /\ tpc[p] = "t_del"
  /\ onetime' = [onetime EXCEPT ![targ[p]] = 0]
  /\ tpc' = [tpc EXCEPT ![p] = "done"]
  /\ tres' = [tres EXCEPT ![p] = TRUE]
  /\ granted' = [granted EXCEPT ![targ[p]] = @ + 1]
  /\ UNCHANGED <<targ, allowed, cvars, hvars, rvars, ovars>>

ConsumeReturn(p) ==
  /\ tpc[p] = "done"
  /\ tpc' = [tpc EXCEPT ![p] = "idle"]
  /\ targ' = [targ EXCEPT ![p] = Null]
  /\ tres' = [tres EXCEPT ![p] = FALSE]
  /\ UNCHANGED <<onetime, allowed, granted, cvars, hvars, rvars, ovars>>

\* a second passes: the EX of every key runs down
OneTimeTick ==
  /\ \E j \in OneJtis : onetime[j] > 0
  /\ onetime' = [j \in OneJtis |-> IF onetime[j] > 0 THEN onetime[j] - 1 ELSE 0]
  /\ UNCHANGED <<tpc, targ, tres, allowed, granted, cvars, hvars, rvars, ovars>>

OneTimeNext ==
  \/ \E j \in OneJtis, t \in OneTtls : allowOneTime(j, t)
  \/ \E p \in Procs, j \in OneJtis : ConsumeGet(p, j)
  \/ \E p \in Procs : ConsumeDel(p)
  \/ \E p \in Procs : ConsumeReturn(p)
  \/ OneTimeTick

HInitCommon ==
  /\ req = [p \in Procs |-> NoReq]
  /\ rrl = NoHits
  /\ rejected = NoTok
  /\ faulted = {}

XInitCommon ==
  /\ env = [sameSite |-> Unset, secure |-> Unset, nodeEnv |-> Unset]
  /\ cookieCfg = NoCfg
  /\ jar = NoCookie
  /\ TInitCommon
  /\ HInitCommon

vars == <<rvars, ovars, xvars>>

InitCookie ==
  /\ env \in [sameSite : SameSiteEnv, secure : SecureEnv, nodeEnv : NodeEnv]
  /\ cookieCfg = NoCfg
  /\ jar = NoCookie
  /\ TInitCommon
  /\ HInitCommon
  /\ RefreshInitCommon /\ serial = TRUE /\ OtpInitCommon /\ oserial = TRUE
SpecCookie == InitCookie /\ [][CookieNext]_vars

InitOneTime ==
  RefreshInitCommon /\ serial = TRUE /\ OtpInitCommon /\ oserial = TRUE /\ XInitCommon
SpecOneTime == InitOneTime /\ [][OneTimeNext]_vars

\* requests of different clients interleave at every store round trip
InitRefresh ==
  RefreshInitCommon /\ serial = FALSE /\ OtpInitCommon /\ oserial = TRUE /\ XInitCommon
SpecRefresh == InitRefresh /\ [][RefreshNext]_vars

\* requests run one after the other
InitRefreshSeq ==
  RefreshInitCommon /\ serial = TRUE /\ OtpInitCommon /\ oserial = TRUE /\ XInitCommon
SpecRefreshSeq == InitRefreshSeq /\ [][RefreshSeqNext]_vars

SpecAuth == InitRefreshSeq /\ [][AuthNext]_vars
SpecHttp == InitRefreshSeq /\ [][HttpNext]_vars
SpecRefreshFault == InitRefreshSeq /\ [][RefreshFaultNext]_vars

\* the OTP endpoints, interleaved and serial
InitOtp ==
  OtpInitCommon /\ oserial = FALSE /\ RefreshInitCommon /\ serial = TRUE /\ XInitCommon
SpecOtp == InitOtp /\ [][OtpNext]_vars

InitOtpSeq ==
  OtpInitCommon /\ oserial = TRUE /\ RefreshInitCommon /\ serial = TRUE /\ XInitCommon
SpecOtpSeq == InitOtpSeq /\ [][OtpNext]_vars

\* bump: the EXPIRE call (or the caller) fails after INCR returned 1; the rejection
\* propagates out of the service call and the counter key stays without a TTL
ExpireFails(p) ==
  /\ opc[p] \in {"q_expire", "s_expire", "v_expire"}
  /\ OFinish(p, "InternalError")
  /\ UNCHANGED <<rec, cd, blk, rlReq, rlVer, tickets, nextCode, nextTicket, sent, oop,
                 ocode, lhash, oserial, rvars, xvars, used, cases, admitted, fails,
                 ostart>>

OtpCrashNext ==
  \/ OtpNext
  \/ \E p \in Procs : ExpireFails(p)

\* one call at a time, store calls may fail
SpecOtpCrash == InitOtpSeq /\ [][OtpCrashNext]_vars

IssueSendFails_Rollback(p) ==
  /\ opc[p] = "q_send"
  /\ rec' = NoRec
  /\ cd' = 0
  /\ OFinish(p, "DeliveryFailed")
  /\ UNCHANGED <<blk, rlReq, rlVer, tickets, nextCode, nextTicket, sent, oop, ocode,
                 lhash, oserial, rvars, xvars, used, cases, admitted, fails, ostart>>
\* issueNewCode: sms.sendOtp / mail.sendOtp rejects (provider error, timeout); nothing
\* catches it in issueNewCode or requestOtp
IssueSendFails(p) ==
  /\ opc[p] = "q_send"
  /\ OFinish(p, "DeliveryFailed")
  /\ UNCHANGED <<rec, cd, blk, rlReq, rlVer, tickets, nextCode, nextTicket, sent, oop,
                 ocode, lhash, oserial, rvars, xvars, used, cases, admitted, fails,
                 ostart>>

OtpDeliveryNext ==
  \/ OtpNext
  \/ \E p \in Procs : IssueSendFails(p)

SpecOtpDelivery == InitOtpSeq /\ [][OtpDeliveryNext]_vars

\* ------------------------------------------------------------------ claims

Done(p, o) == pc[p] = "done" /\ op[p] = o
AfterGetDel == {"r_blacklist", "r_unlink", "r_set", "r_link"}

\* C1: for an issued refresh token T whose allow-list entry is present, two
\* refresh(T) calls made one after the other succeed exactly once: the call that
\* finds the entry returns a new pair, a call made after a successful one fails
\* with Unauthorized.
C1_ReplayRejected ==
  \A p \in Procs : (Done(p, "refresh") /\ arg[p] \in Jtis) =>
     /\ (start[p].entry => (res[p] = "ok" /\ succ[arg[p]] = 1))
     /\ (start[p].rotated => (res[p] \in Unauthorized /\ succ[arg[p]] = 1))

C1_Witness ==
  \E p \in Procs : /\ Done(p, "refresh") /\ arg[p] \in Jtis
                   /\ start[p].rotated /\ res[p] \in Unauthorized

\* C2: of two refresh(T) calls that interleave at every store round trip, at most
\* one obtains the allow-list entry from the read-delete; when both started with
\* the entry present exactly one returns a pair and the other fails with
\* Unauthorized; at most one successor is ever minted from T.
C2_OneWinner ==
  /\ \A j \in Jtis :
        succ[j] + Cardinality({p \in Procs : op[p] = "refresh" /\ arg[p] = j
                                               /\ pc[p] = "r_link"}) <= 1
  /\ \A p, q \in Procs :
        (p # q /\ op[p] = "refresh" /\ op[q] = "refresh" /\ arg[p] = arg[q]
           /\ pc[p] \in AfterGetDel \cup {"done"} /\ pc[q] \in AfterGetDel \cup {"done"})
        => ~(IsPresent(stored[p]) /\ IsPresent(stored[q]))
  /\ \A p, q \in Procs :
        (p # q /\ Done(p, "refresh") /\ Done(q, "refresh") /\ arg[p] = arg[q]
           /\ start[p].entry /\ start[q].entry)
        => \/ (res[p] = "ok" /\ res[q] \in Unauthorized)
           \/ (res[q] = "ok" /\ res[p] \in Unauthorized)

C2_Witness ==
  \E p, q \in Procs :
     /\ p # q /\ Done(p, "refresh") /\ Done(q, "refresh") /\ arg[p] = arg[q]
     /\ start[p].entry /\ start[q].entry
     /\ res[p] = "ok"
     /\ res[q] = "Refresh token is no longer valid. Please sign in again."

\* the session id a successful refresh(T) hands to buildPair
RotatedSession(p) ==
  IF stored[p].sessionId # Null THEN stored[p].sessionId ELSE tokens[arg[p]].sid

RotationDone(p, sid) ==
  /\ ~IsPresent(allow[arg[p]])
  /\ isRefreshBlacklisted(arg[p])
  /\ IsPresent(allow[newJti[p]])
  /\ allow[newJti[p]].sessionId = sid
  /\ <<tokens[arg[p]].sub, sid, newJti[p]>> \in links

C4_SingleUseJti ==
  [][ /\ nextJti' >= nextJti
      /\ \A j \in Jtis :
           (~IsPresent(allow[j]) /\ IsPresent(allow'[j]))
              => (j = nextJti /\ nextJti' = j + 1 /\ tokens[j] = NoToken) ]_vars

C4_Witness ==
  \E j, k \in Jtis : /\ j < k
                     /\ tokens[j] # NoToken /\ ~IsPresent(allow[j])
                     /\ IsPresent(allow[k])

C6_LogoutIdempotent ==
  \A p \in Procs : Done(p, "logout") =>
     /\ res[p] = "success"
     /\ cookieCleared[p]
     /\ (prev.op = "logout" /\ prev.arg = arg[p])
           => (allow = prev.allow /\ rbl = prev.rbl /\ links = prev.links)

C6_Witness ==
  \E p \in Procs : /\ Done(p, "logout") /\ arg[p] \in Jtis
                   /\ prev.op = "logout" /\ prev.arg = arg[p]
                   /\ isRefreshBlacklisted(arg[p])


\* ----------------------------------------------------------------------
\* OTP claims
\* ----------------------------------------------------------------------
ODone(p, o) == opc[p] = "done" /\ oop[p] = o

\* C7: for an active OTP record the (maxAttempts+1)-th failed verifyOtp call returns
\* Forbidden and leaves a Block Record, and every requestOtp or verifyOtp started while
\* the Block Record exists fails with Forbidden.
C7_LockoutAfterMaxAttempts ==
  \A p \in Procs :
    /\ (ODone(p, "verify") /\ ostart[p].active /\ ores[p] # "ticket"
        /\ fails = OTP_VERIFY_MAX + 1)
       => (ores[p] = "Forbidden" /\ blk > 0)
    /\ ((ODone(p, "verify") \/ ODone(p, "request")) /\ ostart[p].blocked)
       => ores[p] = "Forbidden"

\* C8: while a Block Record exists no step of any request, however the requests
\* interleave, writes or dispatches a new code or stores a ticket.
C8_BlockedFailsClosed ==
  [][ blk > 0 => (nextCode' = nextCode /\ sent' = sent /\ tickets' = tickets) ]_vars

\* C9 as stated: a requestOtp made while the active record is under its resend cooldown
\* returns alreadyActive, dispatches no code and leaves the record as it was.
C9_AsStated ==
  \A p \in Procs :
    (ODone(p, "request") /\ ostart[p].cooldown)
    => /\ ores[p] = "alreadyActive"
       /\ rec = ostart[p].rec
       /\ Cardinality(sent) = ostart[p].sent

\* C9: a requestOtp made while the active record is under its resend cooldown returns
\* alreadyActive, or TooManyRequests once the request bucket is exhausted; either way it
\* dispatches no code and leaves the record (codeHash, attempts) as it was.
C9_CooldownRequest ==
  \A p \in Procs :
    (ODone(p, "request") /\ ostart[p].cooldown)
    => /\ ores[p] \in {"alreadyActive", "TooManyRequests"}
       /\ rec = ostart[p].rec
       /\ Cardinality(sent) = ostart[p].sent

\* the second of two answered requests under the cooldown of one record
C9_Witness ==
  \E p \in Procs :
    /\ ODone(p, "request") /\ ostart[p].cooldown
    /\ ores[p] = "alreadyActive"
    /\ rlReq.count = OTP_REQUEST_MAX
    /\ rec.exists /\ rec.resendAt = RESEND_COOLDOWN

TicketStored(jti) ==
  \E t \in tickets : t.jti = jti /\ t.hash = sha256Hex(jti) /\ t.ex = TICKET_TTL_SEC

\* a verifyOtp call presenting the latest code after an earlier call was given a ticket
\* for it
Reverify(p) ==
  ODone(p, "verify") /\ ostart[p].used /\ ocode[p] = nextCode - 1

\* C10 as stated: a successful verifyOtp leaves no record and no cooldown marker and has
\* stored the ticket hash with the ticket TTL; a later verifyOtp with the same code
\* fails with BadRequest until a new code is requested.
C10_AsStated ==
  \A p \in Procs :
    /\ (ODone(p, "verify") /\ ores[p] = "ticket")
       => (~rec.exists /\ cd = 0 /\ TicketStored(nextTicket - 1))
    /\ Reverify(p) => ores[p] = "BadRequest"

\* C10: a successful verifyOtp leaves no record and no cooldown marker and has stored
\* the ticket hash under its jti with the ticket TTL; a later verifyOtp with the same
\* code fails, with BadRequest or (verify bucket exhausted) TooManyRequests, until a new
\* code is requested.
C10_VerifyConsumes ==
  \A p \in Procs :
    /\ (ODone(p, "verify") /\ ores[p] = "ticket")
       => (~rec.exists /\ cd = 0 /\ TicketStored(nextTicket - 1))
    /\ Reverify(p) => ores[p] \in {"BadRequest", "TooManyRequests"}

C10_Witness ==
  \E p \in Procs :
    /\ Reverify(p) /\ ores[p] = "BadRequest"
    /\ ~rec.exists /\ cd = 0 /\ TicketStored(1)

\* C11: whenever verifyOtp fails because no record exists, because the record is past
\* its expiry, or because the code does not match, it throws BadRequest with the
\* message 'Invalid or expired code.': the three failures are one response.
C11_UniformVerifyFailure ==
  \A c \in cases : c[2] = [kind |-> "BadRequest", message |-> "Invalid or expired code."]

\* all three failures have happened
C11_Witness ==
  {c[1] : c \in cases} = {"norecord", "expired", "mismatch"}

\* what requestOtp, run alone from the state st, returns and leaves in the store
RequestOutcome(st) ==
  LET hit == Incr(st.rlReq, OTP_REQUEST_MAX)
      ctr == IF hit.count = 1 THEN Expire(hit, REQUEST_WINDOW) ELSE hit
      same(r) == [res |-> r, rec |-> st.rec, cd |-> st.cd, blk |-> st.blk, rlReq |-> ctr]
  IN IF ctr.count > OTP_REQUEST_MAX THEN same("TooManyRequests")
     ELSE IF st.blk > 0 THEN same("Forbidden")
     ELSE IF resendRemaining(st.rec) > 0 THEN same("alreadyActive")
     ELSE [res |-> "issued",
           rec |-> [exists |-> TRUE, codeHash |-> sha256Hex(st.code), attempts |-> 0,
                    exp |-> OTP_TTL, resendAt |-> RESEND_COOLDOWN, ttl |-> OTP_TTL],
           cd |-> RESEND_COOLDOWN, blk |-> st.blk, rlReq |-> ctr]

OtpOutcome(p) == [res |-> ores[p], rec |-> rec, cd |-> cd, blk |-> blk, rlReq |-> rlReq]

\* requestOtp itself ends as RequestOutcome says
RequestOutcomeExact ==
  \A p \in Procs : ODone(p, "request") => OtpOutcome(p) = RequestOutcome(ostart[p])

\* C12: a resendOtp call returns what requestOtp would have returned from the same
\* store state and leaves the OTP record, cooldown marker, block record and request
\* counter as requestOtp would have left them, with or without an active record.
C12_ResendLikeRequest ==
  \A p \in Procs : ODone(p, "resend") => OtpOutcome(p) = RequestOutcome(ostart[p])

\* a consume call on the bucket has just been rejected with 429
Rejected(p) == opc[p] = "done" /\ ores[p] = "TooManyRequests"

\* C13: in every interleaving, between the first increment of a window and its expiry
\* at most max consume calls of a bucket are let through, a call that is rejected is
\* rejected with the counter above max, and no call on a live window moves its expiry.
C13_FixedWindow ==
  [][ /\ admitted'.req <= OTP_REQUEST_MAX
      /\ admitted'.ver <= OTP_VERIFY_MAX
      /\ \A p \in Procs :
           (Rejected(p)' /\ ~Rejected(p))
           => \/ oop[p] = "verify" /\ admitted.ver = OTP_VERIFY_MAX
                 /\ rlVer'.count > OTP_VERIFY_MAX
              \/ oop[p] # "verify" /\ admitted.req = OTP_REQUEST_MAX
                 /\ rlReq'.count > OTP_REQUEST_MAX
      /\ \A p \in Procs :
           /\ (opc[p] = "v_incr" /\ opc'[p] # "v_incr" /\ admitted.ver = OTP_VERIFY_MAX)
              => Rejected(p)'
           /\ (opc[p] \in {"q_incr", "s_incr"} /\ opc'[p] # opc[p]
               /\ admitted.req = OTP_REQUEST_MAX) => Rejected(p)'
      /\ (rlReq.ttl > 0 /\ rlReq'.count > 0) => rlReq'.ttl <= rlReq.ttl
      /\ (rlVer.ttl > 0 /\ rlVer'.count > 0) => rlVer'.ttl <= rlVer.ttl ]_vars

\* two callers at once on a full verify window that has aged: one was just rejected
C13_Witness ==
  /\ admitted.ver = OTP_VERIFY_MAX /\ rlVer.count > OTP_VERIFY_MAX
  /\ rlVer.ttl = VERIFY_WINDOW - 1
  /\ \E p \in Procs : Rejected(p) /\ oop[p] = "verify"
  /\ \E q \in Procs : opc[q] \notin {"idle", "done"}

\* limiter keys at rest: an existing counter has a TTL within its window
Bounded(ctr, window) == ctr.count > 0 => ctr.ttl \in 1..window

\* C14: whenever no call is in flight, every rate-limit counter that exists carries a
\* TTL no longer than its window, also after a caller failed between INCR and EXPIRE.
C14_CountersSelfExpire ==
  OAllIdle => Bounded(rlReq, REQUEST_WINDOW) /\ Bounded(rlVer, VERIFY_WINDOW)

\* C15: a refresh that succeeded on a token of a registered session has written the
\* session's lastUsedAt again (SessionService.touch), after the write of create.
C15_RefreshTouchesSession ==
  \A p \in Procs :
     (Done(p, "refresh") /\ res[p] = "ok" /\ <<tokens[arg[p]].sub, sess[p]>> \in sessions)
     => lastUsedAt[sess[p]] > 1

\* C16: when a logout with a verifiable refresh token has completed, the session named
\* by the token's sid is no longer in the session registry.
C16_LogoutRevokesSession ==
  \A p \in Procs :
     (Done(p, "logout") /\ arg[p] \in Jtis /\ verifyRefresh(arg[p], TRUE, TRUE))
     => <<tokens[arg[p]].sub, tokens[arg[p]].sid>> \notin sessions

\* the consumed allow-list value is not a record, names another user, or carries a
\* session id that is not the token's
BadRecord(raw, payload) ==
  \/ raw.text # "json"
  \/ raw.userId # payload.sub
  \/ raw.sessionId # Null /\ raw.sessionId # payload.sid

RotationFailures ==
  { "Refresh token verification failed.",
    "Refresh token is no longer valid. Please sign in again.",
    "Refresh state mismatch.", "Refresh token session mismatch." }

InvalidRefresh ==
  [status |-> 401, code |-> "InvalidRefresh",
   message |-> "Invalid or expired refresh token.", cookie |-> NoTok]

Finishing(p) == pc[p] # "done" /\ pc'[p] = "done"

InvalidCredentials ==
  [status |-> 401, code |-> "InvalidCredentials", message |-> "Invalid credentials.",
   cookie |-> NoTok]

\* C20: a login that fails, for an unknown identifier or for a wrong password, is
\* answered 401 InvalidCredentials with the same message and without a cookie, and its
\* steps create no session and no allow-list entry.
C20_UniformLoginFailure ==
  [][ \A p \in Procs :
        (op'[p] = "login" /\ Finishing(p) /\ res'[p] # "ok")
        => /\ res'[p] \in {"identifier not found", "wrong password"}
           /\ resp'[p] = InvalidCredentials
           /\ sessions' = sessions /\ nextSid' = nextSid
           /\ allow' = allow /\ nextJti' = nextJti
           /\ sess'[p] = Null ]_vars

\* a login with a wrong password has been refused while the user's session and token
\* of an earlier login exist
C20_Witness ==
  \E p \in Procs :
     /\ Done(p, "login") /\ res[p] = "wrong password" /\ resp[p] = InvalidCredentials
     /\ sessions # {} /\ Cardinality({j \in Jtis : IsPresent(allow[j])}) = 1

\* C25: under every interleaving, at most one allow-list entry carries the id of a
\* session that a login created: a session has at most one live refresh token.
C25_OneLiveTokenPerSession ==
  \A s \in SessionIds :
     Cardinality({j \in Jtis : IsPresent(allow[j]) /\ allow[j].sessionId = s}) <= 1

\* the token of a session was rotated while a second refresh with the same token was
\* in flight: the session has its one entry, under the new jti
C25_Witness ==
  \E p, q \in Procs, s \in SessionIds :
     /\ p # q /\ arg[p] \in Jtis /\ arg[p] = arg[q]
     /\ Done(p, "refresh") /\ res[p] = "ok" /\ sess[p] = s
     /\ op[q] = "refresh" /\ pc[q] \notin {"idle", "r_verify"}
     /\ {j \in Jtis : IsPresent(allow[j]) /\ allow[j].sessionId = s} = {newJti[p]}

C27_OneTicketPerCode == Cardinality(tickets) <= Cardinality(used)

Mismatches == {"Refresh state mismatch.", "Refresh token session mismatch."}

\* C28: a refresh that fails with a state or session mismatch has consumed the entry
\* of the presented jti and has not blacklisted the jti; the entry of an issued jti,
\* once gone, is never written again, and a refresh succeeds only on a token whose
\* entry was present when it started: the token cannot be rotated afterwards.
C28_MismatchConsumes ==
  [][ /\ \A p \in Procs :
           (op'[p] = "refresh" /\ Finishing(p) /\ res'[p] \in Mismatches)
           => /\ IsPresent(stored'[p])
              /\ ~IsPresent(allow'[arg[p]])
              /\ rbl'[arg[p]] = 0
      /\ \A j \in Jtis :
           (tokens[j] # NoToken /\ ~IsPresent(allow[j])) => ~IsPresent(allow'[j])
      /\ \A p \in Procs :
           (op'[p] = "refresh" /\ Finishing(p) /\ res'[p] = "ok") => start[p].entry
    ]_vars

\* a later refresh with a token that is unexpired, not blacklisted, never rotated and
\* never revoked is refused: an earlier mismatch consumed its entry
C28_Witness ==
  \E p \in Procs :
     /\ Done(p, "refresh") /\ arg[p] \in Jtis
     /\ res[p] = "Refresh token is no longer valid. Please sign in again."
     /\ tokens[arg[p]].exp > 0 /\ rbl[arg[p]] = 0
     /\ ~start[p].rotated /\ ~start[p].revoked

\* C21: whatever COOKIE_SAMESITE, COOKIE_SECURE and NODE_ENV are, the resolved cookie
\* configuration never combines sameSite 'none' with secure false, it is what
\* authConfig computes from the environment, and every refresh cookie that login or
\* refresh sets is HttpOnly and carries the resolved sameSite and secure.
C21_NoneImpliesSecure ==
  /\ cookieCfg.loaded =>
       /\ cookieCfg = authConfig(env)
       /\ ~(cookieCfg.sameSite = "none" /\ cookieCfg.secure = FALSE)
       /\ (env.sameSite = "none" => cookieCfg.secure = TRUE)
  /\ jar.set =>
       /\ jar.httpOnly = TRUE
       /\ jar.sameSite = cookieCfg.sameSite /\ jar.secure = cookieCfg.secure
       /\ ~(jar.sameSite = "none" /\ jar.secure = FALSE)

\* SameSite=None with COOKIE_SECURE=false outside production: the cookie of a login
\* went out with Secure
C21_Witness ==
  /\ env.sameSite = "none" /\ booleanLike(env.secure) = "false"
  /\ toLowerCase(env.nodeEnv) # "production"
  /\ jar.set /\ jar.by = "login" /\ jar.secure = TRUE /\ jar.sameSite = "none"

\* C29: a one-time token is consumed at most once: for every jti, no more
\* consumeOneTime calls have returned true than allowOneTime calls were made for it,
\* also when consumeOneTime calls run concurrently.
C29_ConsumedAtMostOnce == \A j \in OneJtis : granted[j] <= allowed[j]

OFinishing(p) == opc[p] # "done" /\ opc'[p] = "done"

\* the record a request found at its start is under cooldown and its code was never
\* dispatched
Undelivered(p) ==
  /\ ostart[p].cooldown
  /\ \E c \in 1..MaxCodes : ostart[p].rec.codeHash = sha256Hex(c) /\ c \notin sent

\* C30 as stated: a requestOtp repeated within the cooldown of a record whose delivery
\* failed returns alreadyActive and dispatches no code.
C30_AsStated ==
  \A p \in Procs :
    (ODone(p, "request") /\ Undelivered(p))
    => ores[p] = "alreadyActive" /\ Cardinality(sent) = ostart[p].sent

\* C30: the record and the cooldown marker are stored before the code is dispatched:
\* when the delivery fails the error reaches the caller and the step leaves the record
\* just written and the cooldown marker in the store; a requestOtp repeated within that
\* cooldown returns alreadyActive, or TooManyRequests once the request bucket is
\* exhausted, and dispatches no code and writes no record.
C30_FailedDeliveryKeepsRecord ==
  [][ \A p \in Procs :
        /\ (OFinishing(p) /\ ores'[p] = "DeliveryFailed")
           => /\ rec' = rec /\ cd' = cd /\ sent' = sent
              /\ rec'.exists /\ rec'.codeHash = sha256Hex(lhash[p])
              /\ rec'.resendAt = RESEND_COOLDOWN /\ cd' = RESEND_COOLDOWN
              /\ lhash[p] \notin sent'
        /\ (OFinishing(p) /\ oop[p] = "request" /\ Undelivered(p)')
           => /\ ores'[p] \in {"alreadyActive", "TooManyRequests"}
              /\ Cardinality(sent') = ostart[p].sent
              /\ rec' = ostart[p].rec ]_vars

\* a request answered alreadyActive for a record whose code never went out
C30_Witness ==
  \E p \in Procs :
    /\ ODone(p, "request") /\ Undelivered(p)
    /\ ores[p] = "alreadyActive"
    /\ sent = {} /\ rec.exists

\* C22: a POST /auth/refresh that passes the header checks and the rate limit and
\* carries a refresh token with a live allow-list entry only in the body (no cookie)
\* is rotated: it is answered 200 with a new refresh cookie.
C22_BodyTokenRotates ==
  \A p \in Procs :
    ( /\ Done(p, "refresh")
      /\ req[p].cookie = NoTok /\ req[p].body \in Jtis
      /\ tokens[req[p].body].exp > 0
      /\ resp[p].status \notin {400, 403, 429}
      /\ \/ IsPresent(allow[req[p].body])
         \/ (arg[p] = req[p].body /\ start[p].entry) )
    => resp[p].status = 200 /\ resp[p].cookie \in Jtis

\* C23: blacklisting and unlinking come after the allow-list consumption and are
\* best-effort: a refresh whose blacklist or unlink call failed still returns a new pair
\* (200, new cookie, new allow-list entry), the old entry is gone for good, and every
\* later refresh with the old token is refused with Unauthorized.
C23_HousekeepingBestEffort ==
  /\ \A j \in faulted : ~IsPresent(allow[j])
  /\ \A p \in Procs :
       (Done(p, "refresh") /\ arg[p] \in faulted)
       => IF IsPresent(stored[p])
          THEN /\ res[p] = "ok" /\ resp[p].status = 200
               /\ resp[p].cookie = newJti[p] /\ newJti[p] # arg[p]
               /\ IsPresent(allow[newJti[p]])
          ELSE res[p] \in Unauthorized /\ resp[p].status = 401

\* the old token of a rotation whose blacklist call failed is presented again: it is
\* unexpired and not blacklisted, and is refused because its entry was consumed
C23_Witness ==
  \E p \in Procs :
    /\ Done(p, "refresh") /\ arg[p] \in faulted /\ start[p].rotated
    /\ tokens[arg[p]].exp > 0 /\ rbl[arg[p]] = 0
    /\ res[p] = "Refresh token is no longer valid. Please sign in again."

\* C24: a POST /auth/refresh answered 403 (Origin/Referer) or 400 (body that is not
\* JSON) is answered in the step it arrives in, before any store call: the rate-limit
\* counter, the allow-list, the blacklist and the session links are unchanged; and a
\* later request that presents the same token, still unexpired and with its entry
\* present, to the service is rotated.
C24_EarlyRejectTouchesNothing ==
  [][ \A p \in Procs :
        /\ (Finishing(p) /\ op'[p] = "refresh" /\ resp'[p].status \in {400, 403})
           => /\ pc[p] = "idle"
              /\ rrl' = rrl /\ allow' = allow /\ rbl' = rbl /\ links' = links
              /\ tokens' = tokens
        /\ (Finishing(p) /\ op'[p] = "refresh" /\ arg'[p] \in Jtis
            /\ arg'[p] = rejected' /\ start'[p].entry /\ tokens'[arg'[p]].exp > 0)
           => res'[p] = "ok" /\ resp'[p].status = 200 ]_vars

\* the token of a request refused by the header checks was rotated by a later request
C24_Witness ==
  \E p \in Procs :
    /\ Done(p, "refresh") /\ res[p] = "ok" /\ resp[p].status = 200
    /\ arg[p] \in Jtis /\ arg[p] = rejected
    /\ rrl.count > 0

====
